---- MODULE Spec2Model ----
(***************************************************************************)
(* Model of the fuzzing-campaign orchestration scripts:                    *)
(*   scripts/build_dataset.py  - grid scheduler with a persisted state     *)
(*   scripts/ezr_driver.py     - active-learning driver                    *)
(*   scripts/aggregate_results.py - aggregation of the results directory   *)
(* The grid scheduler is modelled statement by statement at the points     *)
(* where the process can die: every save of the state file is an open      *)
(* (truncate) step followed by a dump step, as open(..., "w") + json.dump. *)
(* Specifications:                                                         *)
(*   Spec, SpecRecorded - the grid driver over runs, kills and restarts    *)
(*   SpecLaunches       - the same, with the launches of each invocation   *)
(*   SpecInvocations    - the same, with --dry-run and what is left behind *)
(*   SpecResume         - two invocations on one disk, with and without    *)
(*                        --resume                                         *)
(*   SpecAL, SpecALFair - the active-learning driver                       *)
(*   SpecCampaign       - one campaign of the grid driver, timed           *)
(*   SpecDocker         - one campaign of the active-learning driver       *)
(*   SpecAggregate      - aggregate_results.py on one results directory    *)
(*   SpecCombos, SpecTimeout, SpecSplit, SpecScores, SpecSelect,           *)
(*   SpecExtract        - single functions                                 *)
(***************************************************************************)
EXTENDS Integers, Sequences, FiniteSets, TLC

VARIABLES
    \* ---- disk ----
    stateFile,      \* dataset_state.json
    metrics,        \* dataset_results/<label>/metrics.json, per label
    stats,          \* workdir/**/fuzzer_stats as read by the timeout handler
    \* ---- grid driver process (build_dataset.main) ----
    pc,             \* position of the driver
    fileOpen,       \* the state file is open for writing (truncated, not yet dumped)
    state,          \* the in-memory state dict
    completed_set,  \* the local completed_set
    idx,            \* position of the for loop in combinations (1-based)
    outcome,        \* how run_campaign returned for the current label
    \* ---- history (not program state) ----
    resumable,      \* label found in progress with a valid artifact when this invocation started
    validated,      \* labels whose launch exited successfully and was validated
    failed,         \* labels that resolved to Failed at some time
    lostAt,         \* what the last kill between the two saves interrupted
    \* ---- active-learning driver process (ezr_driver.main) ----
    alPc,           \* position of the driver
    budget,         \* args.budget
    evaluated,      \* keys of the evaluated dict (knob tuples that have metrics)
    round,          \* i of the exploration loop
    next_knobs,     \* knob tuple of the campaign being run
    all_results,    \* number of entries of all_results
    written,        \* the outputs (comparison, all_results.json) are written
    \* ---- one call of a pure function ----
    arg,            \* its argument
    out,            \* its result (so far)
    done,           \* it has returned
    rng,            \* state of the global generator of the random module
    \* ---- one campaign of the grid driver, with its clock ----
    timeout_seconds,\* the parsed --budget
    elapsed,        \* seconds since subprocess.run started the runner
    runPc,          \* position in run_campaign and the resolution that follows
    returncode,     \* exit code of the runner
    artifact,       \* metrics.json of the label when the runner is gone
    run_ok,         \* what run_campaign returned (success in main)
    resolution,     \* how main resolves the combination
    \* ---- history of one invocation of the grid driver ----
    launched,       \* the labels it has launched, in the order of their launch
    atStart,        \* the completed list of the state file it loaded
    dry_run,        \* args.dry_run
    build_launched, \* it has launched the image build or the image check
    \* ---- what the grid driver leaves on disk besides the state file ----
    results_dir,    \* RESULTS_DIR exists
    saved,          \* every label of the completed list of a state it saved
    \* ---- two invocations on the same disk, with and without --resume ----
    resume,         \* args.resume
    phase,          \* 0: any history; 1: the invocation with --resume;
                    \* 2: the invocation without it, on the same disk
    snap,           \* the disk (state file, results) the two invocations find
    script,         \* what the image build and each runner do in both
    obs,            \* the saved states and launches of the invocation, in order
    obs1            \* those of the invocation with --resume

gridVars == <<stateFile, metrics, stats, pc, fileOpen, state, completed_set,
              idx, outcome, resumable, validated, failed, lostAt>>
alVars   == <<alPc, budget, evaluated, round, next_knobs, all_results, written>>
pureVars == <<arg, out, done, rng>>
runVars  == <<timeout_seconds, elapsed, runPc, returncode, artifact, run_ok,
              resolution>>
effectVars == <<dry_run, build_launched, results_dir, saved>>
pairVars   == <<resume, phase, snap, script, obs, obs1>>
launchVars == <<launched, atStart, effectVars, pairVars>>
vars     == <<gridVars, alVars, pureVars, runVars, launchVars>>

(***************************************************************************)
(* Bounds and value domains                                                *)
(***************************************************************************)
NumCombos == 2
MaxBudget == 3

None   == 0          \* Python None for a label
Absent == -1         \* a key that is missing from an artifact

\* generate_combinations: labels in enumeration order; label k stands for
\* combo_<k-1>.
combinations == [k \in 1..NumCombos |-> k]
Labels == 1..NumCombos

(***************************************************************************)
(* Artifacts                                                               *)
(***************************************************************************)
\* A value of a "key : value" line of fuzzer_stats: the number and whether
\* the text carries a trailing '%'.
Text(n, p) == [num |-> n, pct |-> p]
NoText == Text(Absent, FALSE)

Stats(cvg, paths, execs) ==
    [kind |-> "stats", bitmap_cvg |-> cvg, paths_total |-> paths, execs_done |-> execs]
NoWorkdir == [kind |-> "noworkdir", bitmap_cvg |-> NoText, paths_total |-> NoText,
              execs_done |-> NoText]
NoStats   == [kind |-> "nostats", bitmap_cvg |-> NoText, paths_total |-> NoText,
              execs_done |-> NoText]
\* fuzzer_stats files: without any known key, without the coverage line, in
\* the fuzzer's format ("bitmap_cvg : 12%"), and with a bare coverage number
StatsFiles == {Stats(NoText, NoText, NoText),
               Stats(NoText, Text(5, FALSE), Text(200, FALSE)),
               Stats(Text(12, TRUE), Text(5, FALSE), Text(200, FALSE)),
               Stats(Text(12, FALSE), Text(5, FALSE), Text(200, FALSE))}
Workdirs == {NoWorkdir, NoStats} \cup StatsFiles

\* metrics.json of one label
Json(cvg, paths, execs, bugs) ==
    [kind |-> "json", bitmap_cvg_pct |-> cvg, paths_total |-> paths,
     execs_done |-> execs, bugs_triggered |-> bugs, bugs_reached |-> bugs]
NoMetrics      == [kind |-> "none", bitmap_cvg_pct |-> 0, paths_total |-> 0,
                   execs_done |-> 0, bugs_triggered |-> 0, bugs_reached |-> 0]
CorruptMetrics == [kind |-> "corrupt", bitmap_cvg_pct |-> 0, paths_total |-> 0,
                   execs_done |-> 0, bugs_triggered |-> 0, bugs_reached |-> 0]
\* what the campaign runner (run_knob_campaign.sh) may leave for its label
RunnerMetrics == {Json(12, 5, e, 1) : e \in {Absent, 0, 200}}
                     \cup {Json(12, 0, 50, 1), CorruptMetrics}

\* dataset_state.json
AbsentFile  == [kind |-> "absent",  completed |-> {}, in_progress |-> None]
PartialFile == [kind |-> "partial", completed |-> {}, in_progress |-> None]
OkFile(s)   == [kind |-> "ok", completed |-> s.completed, in_progress |-> s.in_progress]

NoState == [completed |-> {}, in_progress |-> None]

(***************************************************************************)
(* Pure functions of build_dataset.py                                      *)
(***************************************************************************)
\* get(key, default="0") of extract_metrics_from_workdir: the \S+ after
\* "key :" when the key is there, else the default "0".
get(s, key) == IF s[key] = NoText THEN Text(0, FALSE) ELSE s[key]

\* float(v) / int(v): raise ValueError on text with a trailing '%'.
Parses(v) == ~v.pct

\* extract_metrics_from_workdir(workdir, results_dir, label) as called from the
\* timeout handler of run_campaign, whose try/except swallows any exception:
\* the metrics.json of the label after the call, given the one before.
extract_metrics_from_workdir(w, before) ==
    IF w.kind # "stats" THEN before
    ELSE LET coverage    == get(w, "bitmap_cvg")
             paths_total == get(w, "paths_total")
             execs_done  == get(w, "execs_done")
         IN  IF Parses(coverage) /\ Parses(paths_total) /\ Parses(execs_done)
             THEN Json(coverage.num, paths_total.num, execs_done.num, 0)
             ELSE before

\* check_combo_complete without its execs_done == 0 test
check_combo_complete_NoZeroTest(m) ==
    IF m.kind = "none" THEN FALSE
    ELSE IF m.kind = "corrupt" THEN FALSE
    ELSE LET execs_done  == IF m.execs_done = Absent THEN 0 ELSE m.execs_done
             paths_total == IF m.paths_total = Absent THEN 0 ELSE m.paths_total
         IN  IF paths_total = 0 /\ execs_done < 100 THEN FALSE
             ELSE TRUE

\* check_combo_complete(label), on the metrics.json of the label
check_combo_complete(m) ==
    IF m.kind = "none" THEN FALSE
    ELSE IF m.kind = "corrupt" THEN FALSE
    ELSE LET execs_done  == IF m.execs_done = Absent THEN 0 ELSE m.execs_done
             paths_total == IF m.paths_total = Absent THEN 0 ELSE m.paths_total
         IN  IF execs_done = 0 THEN FALSE
             ELSE IF paths_total = 0 /\ execs_done < 100 THEN FALSE
             ELSE TRUE

\* load_state that always starts from a fresh state
load_state_Fresh == NoState

\* load_state() that takes a missing file for one where every combination is done
load_state_AllDone ==
    IF stateFile.kind = "ok"
    THEN [completed |-> stateFile.completed, in_progress |-> stateFile.in_progress]
    ELSE [completed |-> Labels, in_progress |-> None]

\* load_state()
load_state ==
    IF stateFile.kind = "ok"
    THEN [completed |-> stateFile.completed, in_progress |-> stateFile.in_progress]
    ELSE NoState

(***************************************************************************)
(* Grid driver: build_dataset.main                                         *)
(***************************************************************************)
Stopped   == {"idle", "killed", "aborted", "exited", "done"}
SaveSites == {"save_init", "save_promote", "save_inprog", "save_done", "save_fail"}
label     == combinations[idx]
success   == outcome = "ok"

InitGrid ==
    /\ stateFile = AbsentFile
    /\ metrics = [l \in Labels |-> NoMetrics]
    /\ stats = NoWorkdir
    /\ pc = "idle"
    /\ fileOpen = FALSE
    /\ state = NoState
    /\ completed_set = {}
    /\ idx = 1
    /\ outcome = "none"
    /\ resumable = None
    /\ validated = {}
    /\ failed = {}
    /\ lostAt = [label |-> None, completed |-> {}]
    /\ launched = <<>>
    /\ atStart = {}
    /\ dry_run = FALSE
    /\ build_launched = FALSE
    /\ results_dir = FALSE
    /\ saved = {}
    /\ resume = FALSE
    /\ phase = 0
    /\ snap = [stateFile |-> AbsentFile, metrics |-> [l \in Labels |-> NoMetrics]]
    /\ script = [built |-> TRUE, runs |-> [l \in Labels |-> "ok"]]
    /\ obs = <<>>
    /\ obs1 = <<>>

InitAL ==
    /\ alPc = "idle"
    /\ budget = 0
    /\ evaluated = {}
    /\ round = 0
    /\ next_knobs = <<>>
    /\ all_results = 0
    /\ written = FALSE

\* no pure function is being called
InitPure ==
    /\ arg = 0
    /\ out = 0
    /\ done = FALSE
    /\ rng = 0

\* no campaign is being timed
InitRun ==
    /\ timeout_seconds = 0
    /\ elapsed = 0
    /\ runPc = "idle"
    /\ returncode = 0
    /\ artifact = NoMetrics
    /\ run_ok = FALSE
    /\ resolution = "none"

Init == InitGrid /\ InitAL /\ InitPure /\ InitRun

\* A driver that answers an unparseable state file with a fresh state.
Start_ResetOnCorrupt ==
    /\ pc \in Stopped
    /\ lostAt' = IF pc = "killed" THEN lostAt ELSE [label |-> None, completed |-> {}]
    /\ state' = load_state
    /\ resumable' = None
    /\ pc' = "save_init"
    /\ UNCHANGED <<stateFile, metrics, stats, fileOpen, completed_set, idx,
                   outcome, validated, failed>>

\* A driver that loads the state file only with --resume.
Start_FreshWithoutResume ==
    /\ pc \in Stopped
    /\ lostAt' = IF pc = "killed" THEN lostAt ELSE [label |-> None, completed |-> {}]
    /\ IF resume /\ stateFile.kind = "partial"
       THEN /\ pc' = "aborted"
            /\ UNCHANGED <<state, resumable>>
       ELSE /\ state' = IF resume THEN load_state ELSE NoState
            /\ resumable' = None
            /\ pc' = "save_init"
    /\ UNCHANGED <<stateFile, metrics, stats, fileOpen, completed_set, idx,
                   outcome, validated, failed>>

\* The operator runs the driver. A state file that does not parse makes
\* json.load raise out of main.
Start ==
    /\ pc \in Stopped
    /\ lostAt' = IF pc = "killed" THEN lostAt ELSE [label |-> None, completed |-> {}]
    /\ IF stateFile.kind = "partial"
       THEN /\ pc' = "aborted"
            /\ UNCHANGED <<state, resumable>>
       ELSE /\ state' = load_state
            /\ resumable' = IF /\ stateFile.in_progress # None
                               /\ stateFile.in_progress \notin stateFile.completed
                               /\ check_combo_complete(metrics[stateFile.in_progress])
                            THEN stateFile.in_progress
                            ELSE None
            /\ pc' = "save_init"
    /\ UNCHANGED <<stateFile, metrics, stats, fileOpen, completed_set, idx,
                   outcome, validated, failed>>

\* save_state, first half: open(STATE_FILE, "w") truncates the file.
save_open ==
    /\ pc \in SaveSites
    /\ ~fileOpen
    /\ fileOpen' = TRUE
    /\ stateFile' = PartialFile
    /\ UNCHANGED <<metrics, stats, pc, state, completed_set, idx, outcome,
                   resumable, validated, failed, lostAt>>

\* where main goes on after the save at each site
AfterSave(site) ==
    CASE site = "save_init"    -> "build"
      [] site = "save_promote" -> "loop"
      [] site = "save_inprog"  -> "running"
      [] site = "save_done"    -> "loop"
      [] site = "save_fail"    -> "loop"

\* save_state, second half: json.dump and close. After the save of a resolved
\* combination the loop sleeps and moves to the next combination; after the
\* save of in_progress, run_campaign starts the runner.
save_state ==
    /\ pc \in SaveSites
    /\ fileOpen
    /\ fileOpen' = FALSE
    /\ stateFile' = OkFile(state)
    /\ pc' = AfterSave(pc)
    /\ idx' = IF pc \in {"save_done", "save_fail"} THEN idx + 1 ELSE idx
    /\ stats' = IF pc \in {"save_done", "save_fail"} THEN NoWorkdir ELSE stats
    /\ outcome' = IF pc \in {"save_done", "save_fail"} THEN "none" ELSE outcome
    /\ UNCHANGED <<metrics, state, completed_set, resumable, validated, failed, lostAt>>

\* ensure_docker_image_built / check_docker_image: sys.exit(1) on failure
EnsureImage ==
    /\ pc = "build"
    /\ \E built \in BOOLEAN : pc' = IF built THEN "resume" ELSE "exited"
    /\ UNCHANGED <<stateFile, metrics, stats, fileOpen, state, completed_set, idx,
                   outcome, resumable, validated, failed, lostAt>>

\* resume logic that always restarts the combination found in progress
Resume_AlwaysRestart ==
    /\ pc = "resume"
    /\ completed_set' = state.completed
    /\ pc' = "loop"
    /\ idx' = 1
    /\ UNCHANGED <<stateFile, metrics, stats, fileOpen, state, outcome, resumable,
                   validated, failed, lostAt>>

\* "Handle resume logic"
Resume ==
    /\ pc = "resume"
    /\ LET in_progress == state.in_progress
       IN  IF /\ in_progress # None
              /\ in_progress \notin state.completed
              /\ check_combo_complete(metrics[in_progress])
           THEN /\ completed_set' = state.completed \cup {in_progress}
                /\ state' = [completed |-> state.completed \cup {in_progress},
                             in_progress |-> None]
                /\ pc' = "save_promote"
           ELSE /\ completed_set' = state.completed
                /\ pc' = "loop"
                /\ UNCHANGED state
    /\ idx' = 1
    /\ UNCHANGED <<stateFile, metrics, stats, fileOpen, outcome, resumable,
                   validated, failed, lostAt>>

\* for label, combo_params in combinations: exhausted
LoopDone ==
    /\ pc = "loop"
    /\ idx > NumCombos
    /\ pc' = "done"
    /\ state' = NoState
    /\ completed_set' = {}
    /\ idx' = 1
    /\ resumable' = None
    /\ UNCHANGED <<stateFile, metrics, stats, fileOpen, outcome, validated,
                   failed, lostAt>>

\* a loop that may pass over a combination that is not completed
LoopSkip_Any ==
    /\ pc = "loop"
    /\ idx <= NumCombos
    /\ idx' = idx + 1
    /\ UNCHANGED <<stateFile, metrics, stats, pc, fileOpen, state, completed_set,
                   outcome, resumable, validated, failed, lostAt>>

\* if label in completed_set: continue
LoopSkip ==
    /\ pc = "loop"
    /\ idx <= NumCombos
    /\ label \in completed_set
    /\ idx' = idx + 1
    /\ UNCHANGED <<stateFile, metrics, stats, pc, fileOpen, state, completed_set,
                   outcome, resumable, validated, failed, lostAt>>

\* the loop body starting the runner before in_progress is saved
LoopBegin_RunFirst ==
    /\ pc = "loop"
    /\ idx <= NumCombos
    /\ label \notin completed_set
    /\ state' = [state EXCEPT !.in_progress = label]
    /\ pc' = "running"
    /\ UNCHANGED <<stateFile, metrics, stats, fileOpen, completed_set, idx,
                   outcome, resumable, validated, failed, lostAt>>

\* the loop body without the skip of completed combinations
LoopBegin_NoSkip ==
    /\ pc = "loop"
    /\ idx <= NumCombos
    /\ state' = [state EXCEPT !.in_progress = label]
    /\ pc' = "save_inprog"
    /\ UNCHANGED <<stateFile, metrics, stats, fileOpen, completed_set, idx,
                   outcome, resumable, validated, failed, lostAt>>

\* state["in_progress"] = label; save_state(state); run_campaign(...)
LoopBegin ==
    /\ pc = "loop"
    /\ idx <= NumCombos
    /\ label \notin completed_set
    /\ state' = [state EXCEPT !.in_progress = label]
    /\ pc' = "save_inprog"
    /\ UNCHANGED <<stateFile, metrics, stats, fileOpen, completed_set, idx,
                   outcome, resumable, validated, failed, lostAt>>

\* The runner writes its metrics artifact under output_dir/label/.
RunnerWritesFrom(ms) ==
    /\ pc = "running"
    /\ \E m \in ms : metrics' = [metrics EXCEPT ![label] = m]
    /\ UNCHANGED <<stateFile, stats, pc, fileOpen, state, completed_set, idx,
                   outcome, resumable, validated, failed, lostAt>>

RunnerWrites == RunnerWritesFrom(RunnerMetrics)

\* subprocess.run returns: exit code 0 after 5 s or more ("ok"), a non-zero
\* exit code, or exit code 0 in less than 5 s.
RunnerReturns ==
    /\ pc = "running"
    /\ \E o \in {"ok", "nonzero", "toofast"} : outcome' = o
    /\ pc' = "check"
    /\ UNCHANGED <<stateFile, metrics, stats, fileOpen, state, completed_set, idx,
                   resumable, validated, failed, lostAt>>

\* subprocess.TimeoutExpired: the handler salvages metrics from the workdir.
RunnerTimeoutOn(ws) ==
    /\ pc = "running"
    /\ \E w \in ws :
          /\ stats' = w
          /\ metrics' = [metrics EXCEPT
                            ![label] = extract_metrics_from_workdir(w, metrics[label])]
    /\ outcome' = "timeout"
    /\ pc' = "check"
    /\ UNCHANGED <<stateFile, fileOpen, state, completed_set, idx, resumable,
                   validated, failed, lostAt>>

RunnerTimeout == RunnerTimeoutOn(Workdirs)

\* is_complete = check_combo_complete(label); if success and is_complete: ...
ResolveStep ==
    /\ pc = "check"
    /\ LET is_complete == check_combo_complete(metrics[label])
       IN  IF success /\ is_complete
           THEN /\ completed_set' = completed_set \cup {label}
                /\ state' = [completed |-> completed_set \cup {label},
                             in_progress |-> None]
                /\ pc' = "save_done"
           ELSE /\ state' = [state EXCEPT !.in_progress = None]
                /\ pc' = "save_fail"
                /\ UNCHANGED completed_set
    /\ UNCHANGED <<stateFile, metrics, stats, fileOpen, idx, outcome, resumable, lostAt>>

Resolve == ResolveStep /\ UNCHANGED <<validated, failed>>

\* ResolveStep, recording in the history how the combination resolved.
ResolveRecorded ==
    /\ ResolveStep
    /\ IF success /\ check_combo_complete(metrics[label])
       THEN validated' = validated \cup {label} /\ UNCHANGED failed
       ELSE failed' = failed \cup {label} /\ UNCHANGED validated

\* The driver process is killed (SIGKILL, lost connection): its memory is
\* gone, the disk stays as it is.
Kill ==
    /\ pc \notin Stopped
    /\ pc' = "killed"
    /\ fileOpen' = FALSE
    /\ state' = NoState
    /\ completed_set' = {}
    /\ idx' = 1
    /\ outcome' = "none"
    /\ stats' = NoWorkdir
    /\ resumable' = None
    /\ lostAt' = IF pc \in {"running", "check"} \/ (pc = "save_fail" /\ ~fileOpen)
                    \/ (pc = "save_done" /\ ~fileOpen)
                 THEN [label |-> label, completed |-> stateFile.completed]
                 ELSE [label |-> None, completed |-> {}]
    /\ UNCHANGED <<stateFile, metrics, validated, failed>>

Next ==
    \/ Start /\ UNCHANGED <<launchVars, alVars, pureVars, runVars>>
    \/ save_open /\ UNCHANGED <<launchVars, alVars, pureVars, runVars>>
    \/ save_state /\ UNCHANGED <<launchVars, alVars, pureVars, runVars>>
    \/ EnsureImage /\ UNCHANGED <<launchVars, alVars, pureVars, runVars>>
    \/ Resume /\ UNCHANGED <<launchVars, alVars, pureVars, runVars>>
    \/ LoopDone /\ UNCHANGED <<launchVars, alVars, pureVars, runVars>>
    \/ LoopSkip /\ UNCHANGED <<launchVars, alVars, pureVars, runVars>>
    \/ LoopBegin /\ UNCHANGED <<launchVars, alVars, pureVars, runVars>>
    \/ RunnerWrites /\ UNCHANGED <<launchVars, alVars, pureVars, runVars>>
    \/ RunnerReturns /\ UNCHANGED <<launchVars, alVars, pureVars, runVars>>
    \/ RunnerTimeout /\ UNCHANGED <<launchVars, alVars, pureVars, runVars>>
    \/ Resolve /\ UNCHANGED <<launchVars, alVars, pureVars, runVars>>
    \/ Kill /\ UNCHANGED <<launchVars, alVars, pureVars, runVars>>

Spec == Init /\ [][Next]_vars

\* The grid driver with the history of resolutions (validated, failed) kept.
NextRecorded ==
    \/ Start /\ UNCHANGED <<launchVars, alVars, pureVars, runVars>>
    \/ save_open /\ UNCHANGED <<launchVars, alVars, pureVars, runVars>>
    \/ save_state /\ UNCHANGED <<launchVars, alVars, pureVars, runVars>>
    \/ EnsureImage /\ UNCHANGED <<launchVars, alVars, pureVars, runVars>>
    \/ Resume /\ UNCHANGED <<launchVars, alVars, pureVars, runVars>>
    \/ LoopDone /\ UNCHANGED <<launchVars, alVars, pureVars, runVars>>
    \/ LoopSkip /\ UNCHANGED <<launchVars, alVars, pureVars, runVars>>
    \/ LoopBegin /\ UNCHANGED <<launchVars, alVars, pureVars, runVars>>
    \/ RunnerWrites /\ UNCHANGED <<launchVars, alVars, pureVars, runVars>>
    \/ RunnerReturns /\ UNCHANGED <<launchVars, alVars, pureVars, runVars>>
    \/ RunnerTimeout /\ UNCHANGED <<launchVars, alVars, pureVars, runVars>>
    \/ ResolveRecorded /\ UNCHANGED <<launchVars, alVars, pureVars, runVars>>
    \/ Kill /\ UNCHANGED <<launchVars, alVars, pureVars, runVars>>

SpecRecorded == Init /\ [][NextRecorded]_vars

\* The grid driver with the history of the launches of each invocation: the
\* history starts with the invocation, a launch is the start of the runner
\* after the save of in_progress, and the history ends with the process.
StartInvocation ==
    /\ Start
    /\ launched' = <<>>
    /\ atStart' = IF stateFile.kind = "ok" THEN stateFile.completed ELSE {}

SaveAndLaunch ==
    /\ save_state
    /\ launched' = IF pc = "save_inprog" THEN Append(launched, label) ELSE launched
    /\ UNCHANGED atStart

EndInvocation ==
    /\ LoopDone \/ Kill
    /\ launched' = <<>>
    /\ atStart' = {}

\* For the order of the launches an artifact counts by whether it passes
\* check_combo_complete: one metrics record of the runner that passes and
\* one that does not, a workdir without stats and one with.
LaunchMetrics  == {Json(12, 5, 200, 1), Json(12, 5, 0, 1)}
LaunchWorkdirs == {NoWorkdir,
                   Stats(Text(12, FALSE), Text(5, FALSE), Text(200, FALSE))}

\* the steps the driver takes by itself, and the return of subprocess.run
DriverStep ==
    \/ save_open     /\ UNCHANGED <<launchVars, alVars, pureVars, runVars>>
    \/ SaveAndLaunch /\ UNCHANGED <<effectVars, pairVars, alVars, pureVars, runVars>>
    \/ EnsureImage   /\ UNCHANGED <<launchVars, alVars, pureVars, runVars>>
    \/ Resume        /\ UNCHANGED <<launchVars, alVars, pureVars, runVars>>
    \/ LoopSkip      /\ UNCHANGED <<launchVars, alVars, pureVars, runVars>>
    \/ LoopBegin     /\ UNCHANGED <<launchVars, alVars, pureVars, runVars>>
    \/ RunnerReturns /\ UNCHANGED <<launchVars, alVars, pureVars, runVars>>
    \/ RunnerTimeoutOn(LaunchWorkdirs)
                     /\ UNCHANGED <<launchVars, alVars, pureVars, runVars>>
    \/ Resolve       /\ UNCHANGED <<launchVars, alVars, pureVars, runVars>>
    \/ EndInvocation /\ pc' = "done"
                     /\ UNCHANGED <<effectVars, pairVars, alVars, pureVars, runVars>>

\* the operator, the runner and the kill
Environment ==
    \/ StartInvocation /\ UNCHANGED <<effectVars, pairVars, alVars, pureVars, runVars>>
    \/ RunnerWritesFrom(LaunchMetrics)
                       /\ UNCHANGED <<launchVars, alVars, pureVars, runVars>>
    \/ EndInvocation /\ pc' = "killed"
                     /\ UNCHANGED <<effectVars, pairVars, alVars, pureVars, runVars>>

NextLaunches == DriverStep \/ Environment

\* A driver that is not killed takes its next step, and subprocess.run
\* returns or raises by its timeout.
SpecLaunches == Init /\ [][NextLaunches]_vars /\ WF_vars(DriverStep)

(***************************************************************************)
(* The invocations of the grid driver, with or without --dry-run, and what *)
(* they leave: the state file, the results directory, the launches of the  *)
(* build step and of the campaigns, and the labels saved as completed.     *)
(***************************************************************************)
\* a dry run that is told apart only after the setup of a run
DryRun_AfterSetup ==
    /\ pc \in Stopped
    /\ IF stateFile.kind = "partial"
       THEN pc' = "aborted" /\ UNCHANGED <<stateFile, results_dir, out>>
       ELSE /\ stateFile' = OkFile(load_state)
            /\ results_dir' = TRUE
            /\ out' = combinations
            /\ pc' = "done"
    /\ UNCHANGED <<metrics, stats, fileOpen, state, completed_set, idx, outcome,
                   resumable, validated, failed, lostAt>>

\* main with --dry-run: parse_timeout, load_params, generate_combinations,
\* the listing of the combinations, return
DryRun ==
    /\ pc \in Stopped
    /\ out' = combinations
    /\ pc' = "done"
    /\ UNCHANGED <<stateFile, metrics, stats, fileOpen, state, completed_set, idx,
                   outcome, resumable, validated, failed, lostAt, results_dir>>

\* the operator runs the driver with --dry-run
InvokeDryRun ==
    /\ DryRun
    /\ dry_run' = TRUE
    /\ build_launched' = FALSE
    /\ launched' = <<>>
    /\ atStart' = {}
    /\ UNCHANGED <<saved, arg, done, rng>>

\* the operator runs the driver without it
InvokeRun ==
    /\ StartInvocation
    /\ dry_run' = FALSE
    /\ build_launched' = FALSE
    /\ UNCHANGED <<results_dir, saved, pureVars>>

\* save_state(state); after the first save of an invocation,
\* RESULTS_DIR.mkdir(parents=True, exist_ok=True)
SaveAndMkdir ==
    /\ SaveAndLaunch
    /\ saved' = saved \cup state.completed
    /\ results_dir' = (results_dir \/ pc = "save_init")
    /\ UNCHANGED <<dry_run, build_launched, pureVars>>

\* if not args.skip_build: ensure_docker_image_built() else check_docker_image()
BuildOrCheck ==
    /\ EnsureImage
    /\ build_launched' = TRUE
    /\ UNCHANGED <<launched, atStart, dry_run, results_dir, saved, pureVars>>

NextInvocations ==
    \/ InvokeDryRun  /\ UNCHANGED <<pairVars, alVars, runVars>>
    \/ InvokeRun     /\ UNCHANGED <<pairVars, alVars, runVars>>
    \/ save_open     /\ UNCHANGED <<launchVars, alVars, pureVars, runVars>>
    \/ SaveAndMkdir  /\ UNCHANGED <<pairVars, alVars, runVars>>
    \/ BuildOrCheck  /\ UNCHANGED <<pairVars, alVars, runVars>>
    \/ Resume        /\ UNCHANGED <<launchVars, alVars, pureVars, runVars>>
    \/ LoopSkip      /\ UNCHANGED <<launchVars, alVars, pureVars, runVars>>
    \/ LoopBegin     /\ UNCHANGED <<launchVars, alVars, pureVars, runVars>>
    \/ RunnerWritesFrom(LaunchMetrics)
                     /\ UNCHANGED <<launchVars, alVars, pureVars, runVars>>
    \/ RunnerReturns /\ UNCHANGED <<launchVars, alVars, pureVars, runVars>>
    \/ RunnerTimeoutOn(LaunchWorkdirs)
                     /\ UNCHANGED <<launchVars, alVars, pureVars, runVars>>
    \/ Resolve       /\ UNCHANGED <<launchVars, alVars, pureVars, runVars>>
    \/ EndInvocation /\ pc' = "done"
                     /\ UNCHANGED <<effectVars, pairVars, alVars, pureVars, runVars>>
    \/ EndInvocation /\ pc' = "killed"
                     /\ UNCHANGED <<effectVars, pairVars, alVars, pureVars, runVars>>

SpecInvocations == Init /\ [][NextInvocations]_vars

(***************************************************************************)
(* The grid driver run twice on the same disk, with --resume and without:  *)
(* after any history of runs and kills (phase 0) the disk is copied, the   *)
(* driver runs with --resume (phase 1), the disk is put back, and the      *)
(* driver runs without it (phase 2). The image build and the runner of     *)
(* each label do the same in both invocations (script), and neither is     *)
(* killed. What is compared is the sequence of saved states and launches.  *)
(***************************************************************************)
Finished == {"done", "exited", "aborted"}

\* what a runner does: exits with 0 after writing valid metrics, exits with
\* a non-zero code, or runs into the timeout with stats in the workdir
Scripts == [built : BOOLEAN, runs : [Labels -> {"ok", "nonzero", "timeout"}]]
ScriptMetrics == Json(12, 5, 200, 1)
ScriptWorkdir == Stats(Text(12, FALSE), Text(5, FALSE), Text(200, FALSE))

\* the memory of a process that has not started
FreshProcess ==
    /\ pc' = "idle"
    /\ fileOpen' = FALSE
    /\ state' = NoState
    /\ completed_set' = {}
    /\ idx' = 1
    /\ outcome' = "none"
    /\ stats' = NoWorkdir
    /\ resumable' = None
    /\ launched' = <<>>
    /\ atStart' = {}
    /\ obs' = <<>>
    /\ UNCHANGED <<validated, failed, lostAt, effectVars>>

\* in the history the operator gives --resume or not
TypeResume ==
    /\ phase = 0
    /\ pc \in Stopped
    /\ resume' = ~resume
    /\ UNCHANGED <<gridVars, launched, atStart, effectVars, phase, snap, script,
                   obs, obs1>>

\* the disk is copied; the next invocation is the one with --resume
BeginPair ==
    /\ phase = 0
    /\ pc \in Stopped
    /\ phase' = 1
    /\ resume' = TRUE
    /\ snap' = [stateFile |-> stateFile, metrics |-> metrics]
    /\ \E sc \in Scripts : script' = sc
    /\ FreshProcess
    /\ UNCHANGED <<stateFile, metrics, obs1>>

\* the invocation with --resume is over: the disk is put back; the next
\* invocation is the one without --resume
Restore ==
    /\ phase = 1
    /\ pc \in Finished
    /\ phase' = 2
    /\ resume' = FALSE
    /\ obs1' = obs
    /\ stateFile' = snap.stateFile
    /\ metrics' = snap.metrics
    /\ FreshProcess
    /\ UNCHANGED <<snap, script>>

\* python3 scripts/build_dataset.py [--resume]
StartPaired ==
    /\ phase = 0 \/ pc = "idle"
    /\ Start
    /\ obs' = <<>>
    /\ UNCHANGED <<launched, atStart, effectVars, resume, phase, snap, script, obs1>>

\* save_state(state), and after the save of in_progress the launch
SaveObserved ==
    /\ save_state
    /\ obs' = IF phase = 0 THEN obs
              ELSE obs \o <<[saved |-> OkFile(state)]>>
                       \o (IF pc = "save_inprog" THEN <<[launch |-> label]>> ELSE <<>>)
    /\ UNCHANGED <<launched, atStart, effectVars, resume, phase, snap, script, obs1>>

\* the image build or check, as the script has it
BuildScripted ==
    /\ EnsureImage
    /\ phase # 0 => pc' = IF script.built THEN "resume" ELSE "exited"

\* the runner writes its metrics
WritesScripted ==
    /\ pc = "running"
    /\ IF phase = 0
       THEN RunnerWritesFrom(LaunchMetrics)
       ELSE /\ script.runs[label] = "ok"
            /\ metrics[label] # ScriptMetrics
            /\ RunnerWritesFrom({ScriptMetrics})

\* subprocess.run returns
ReturnsScripted ==
    /\ RunnerReturns
    /\ phase # 0 =>
          /\ script.runs[label] \in {"ok", "nonzero"}
          /\ script.runs[label] = "ok" => metrics[label] = ScriptMetrics
          /\ outcome' = script.runs[label]

\* subprocess.run raises TimeoutExpired
TimeoutScripted ==
    /\ pc = "running"
    /\ IF phase = 0
       THEN RunnerTimeoutOn(LaunchWorkdirs)
       ELSE script.runs[label] = "timeout" /\ RunnerTimeoutOn({ScriptWorkdir})

\* a kill, in the history only
KillInHistory == phase = 0 /\ Kill

NextResume ==
    \/ TypeResume      /\ UNCHANGED <<alVars, pureVars, runVars>>
    \/ BeginPair       /\ UNCHANGED <<alVars, pureVars, runVars>>
    \/ Restore         /\ UNCHANGED <<alVars, pureVars, runVars>>
    \/ StartPaired     /\ UNCHANGED <<alVars, pureVars, runVars>>
    \/ save_open       /\ UNCHANGED <<launchVars, alVars, pureVars, runVars>>
    \/ SaveObserved    /\ UNCHANGED <<alVars, pureVars, runVars>>
    \/ BuildScripted   /\ UNCHANGED <<launchVars, alVars, pureVars, runVars>>
    \/ Resume          /\ UNCHANGED <<launchVars, alVars, pureVars, runVars>>
    \/ LoopSkip        /\ UNCHANGED <<launchVars, alVars, pureVars, runVars>>
    \/ LoopBegin       /\ UNCHANGED <<launchVars, alVars, pureVars, runVars>>
    \/ WritesScripted  /\ UNCHANGED <<launchVars, alVars, pureVars, runVars>>
    \/ ReturnsScripted /\ UNCHANGED <<launchVars, alVars, pureVars, runVars>>
    \/ TimeoutScripted /\ UNCHANGED <<launchVars, alVars, pureVars, runVars>>
    \/ Resolve         /\ UNCHANGED <<launchVars, alVars, pureVars, runVars>>
    \/ LoopDone        /\ UNCHANGED <<launchVars, alVars, pureVars, runVars>>
    \/ KillInHistory   /\ UNCHANGED <<launchVars, alVars, pureVars, runVars>>

SpecResume == Init /\ [][NextResume]_vars

(***************************************************************************)
(* Active-learning driver: ezr_driver.main                                 *)
(***************************************************************************)
\* KNOB_DEFS and generate_candidate_grid: the knob tuples of the grid
AFL_FAST_CAL   == {0, 1}
AFL_NO_ARITH   == {0, 1}
AFL_HANG_TMOUT == {50, 200, 500, 1000}
generate_candidate_grid == AFL_FAST_CAL \X AFL_NO_ARITH \X AFL_HANG_TMOUT

baseline_knobs == <<0, 0, 200>>
NoKnobs == <<>>         \* the None that ezr_select_next returns on exhaustion

\* a selector that has no exhaustion value
ezr_select_next_NoExhaustion(candidates, ev) ==
    LET unlabeled_candidates == {c \in candidates : c \notin ev}
    IN  IF unlabeled_candidates = {} THEN candidates ELSE unlabeled_candidates

\* a selector that may return a labeled candidate as well
ezr_select_next_AnyCandidate(candidates, ev) ==
    IF {c \in candidates : c \notin ev} = {} THEN {NoKnobs} ELSE candidates

\* ezr_select_next(candidates, evaluated, seed): the values it can return.
\* With no unlabeled candidate it returns None; otherwise it returns an
\* unlabeled candidate: random.choice under the seed with less than 2 labeled
\* rows, the best-scored one otherwise (the scores come from the ezr library).
ezr_select_next(candidates, ev) ==
    LET unlabeled_candidates == {c \in candidates : c \notin ev}
    IN  IF unlabeled_candidates = {} THEN {NoKnobs} ELSE unlabeled_candidates

\* --budget: the small budgets, and one campaign more than the grid has
\* candidates
Budgets == (0..MaxBudget) \cup {Cardinality(generate_candidate_grid) + 1}

\* main up to the start of the baseline campaign
ALStart ==
    /\ alPc = "idle"
    /\ \E b \in Budgets : budget' = b
    /\ evaluated' = {}
    /\ all_results' = 0
    /\ round' = 0
    /\ next_knobs' = baseline_knobs
    /\ written' = FALSE
    /\ alPc' = "campaign"

\* run_docker_campaign returns (whatever the exit code of the runner):
\* the metrics are recorded and the loop goes on.
CampaignReturns ==
    /\ alPc = "campaign"
    /\ evaluated' = evaluated \cup {next_knobs}
    /\ all_results' = all_results + 1
    /\ round' = round + 1
    /\ next_knobs' = NoKnobs
    /\ alPc' = "select"
    /\ UNCHANGED <<budget, written>>

\* subprocess.run(..., timeout=900) raises TimeoutExpired, which neither
\* run_docker_campaign nor main catches: the driver dies with a traceback.
CampaignTimeout ==
    /\ alPc = "campaign"
    /\ next_knobs' = NoKnobs
    /\ alPc' = "crashed"
    /\ UNCHANGED <<budget, evaluated, round, all_results, written>>

\* for i in range(1, args.budget): select the next configuration
Select ==
    /\ alPc = "select"
    /\ round < budget
    /\ \E picked \in ezr_select_next(generate_candidate_grid, evaluated) :
          IF picked = NoKnobs
          THEN alPc' = "output" /\ UNCHANGED next_knobs
          ELSE IF picked \in evaluated
          THEN LET unevaluated == {c \in generate_candidate_grid : c \notin evaluated}
               IN  IF unevaluated = {}
                   THEN alPc' = "output" /\ UNCHANGED next_knobs
                   ELSE /\ \E c \in unevaluated : next_knobs' = c
                        /\ alPc' = "campaign"
          ELSE next_knobs' = picked /\ alPc' = "campaign"
    /\ UNCHANGED <<budget, evaluated, round, all_results, written>>

\* the range is exhausted
RoundsDone ==
    /\ alPc = "select"
    /\ round >= budget
    /\ alPc' = "output"
    /\ UNCHANGED <<budget, evaluated, round, next_knobs, all_results, written>>

\* generate_comparison and all_results.json
Output ==
    /\ alPc = "output"
    /\ written' = TRUE
    /\ alPc' = "finished"
    /\ UNCHANGED <<budget, evaluated, round, next_knobs, all_results>>

\* the process is gone and its memory with it; the operator runs the driver
\* again
ALAgain ==
    /\ alPc \in {"finished", "crashed"}
    /\ alPc' = "idle"
    /\ budget' = 0
    /\ evaluated' = {}
    /\ round' = 0
    /\ next_knobs' = NoKnobs
    /\ all_results' = 0
    /\ written' = FALSE

NextAL ==
    \/ ALStart /\ UNCHANGED <<launchVars, gridVars, pureVars, runVars>>
    \/ CampaignReturns /\ UNCHANGED <<launchVars, gridVars, pureVars, runVars>>
    \/ CampaignTimeout /\ UNCHANGED <<launchVars, gridVars, pureVars, runVars>>
    \/ Select /\ UNCHANGED <<launchVars, gridVars, pureVars, runVars>>
    \/ RoundsDone /\ UNCHANGED <<launchVars, gridVars, pureVars, runVars>>
    \/ Output /\ UNCHANGED <<launchVars, gridVars, pureVars, runVars>>
    \/ ALAgain /\ UNCHANGED <<launchVars, gridVars, pureVars, runVars>>

SpecAL == Init /\ [][NextAL]_vars

\* subprocess.run(..., timeout=900) returns or raises within 900 seconds and
\* no other step of the driver waits: a driver that can take a step takes one.
SpecALFair == SpecAL /\ WF_vars(NextAL)

(***************************************************************************)
(* Claims                                                                  *)
(***************************************************************************)
(* ezr_select_next with at least 2 labeled rows: the best/rest split and   *)
(* the choice among the scored candidates. The ranking (distysort) and the *)
(* scores (likes) come from the ezr library: a labeled row is named by its *)
(* rank, an unlabeled candidate by its place in grid enumeration order,    *)
(* and the scores are inputs.                                              *)
(***************************************************************************)
MaxLabeled   == 60
MaxUnlabeled == 4
MaxScore     == 2

\* sorted_rows = distysort(data), best first
sorted_rows(n) == [i \in 1..n |-> i]

\* a split at the square root rounded up
n_best_Ceil(n) == CHOOSE r \in 1..n : (r - 1) * (r - 1) < n /\ n <= r * r

\* n_best = max(1, round(len(sorted_rows) ** 0.5)); the square root of an
\* integer is never half-way between two integers, so round is the nearest
\* integer: the r with (2r - 1)^2 < 4n < (2r + 1)^2
n_best(n) ==
    LET rounded == CHOOSE r \in 0..n :
                      /\ (2 * r - 1) * (2 * r - 1) < 4 * n
                      /\ 4 * n < (2 * r + 1) * (2 * r + 1)
    IN  IF rounded > 1 THEN rounded ELSE 1

InitSplit ==
    /\ InitGrid /\ InitAL /\ InitRun
    /\ arg \in 2..MaxLabeled
    /\ out = [best |-> <<>>, rest |-> <<>>]
    /\ done = FALSE
    /\ rng = 0

\* best_data = clone(data, sorted_rows[:n_best]);
\* rest_data = clone(data, sorted_rows[n_best:])
SplitBestRest ==
    /\ ~done
    /\ out' = [best |-> SubSeq(sorted_rows(arg), 1, n_best(arg)),
               rest |-> SubSeq(sorted_rows(arg), n_best(arg) + 1, arg)]
    /\ done' = TRUE
    /\ UNCHANGED arg

NextSplit ==
    \/ SplitBestRest /\ UNCHANGED <<launchVars, gridVars, alVars, runVars, rng>>

SpecSplit == InitSplit /\ [][NextSplit]_vars

\* list.sort(key, reverse=True) is stable: one insertion puts x behind every
\* element whose key is not smaller. Here the key of an element is its
\* first component.
insert(x, t) ==
    LET p == Cardinality({i \in 1..Len(t) : t[i][1] >= x[1]})
    IN  SubSeq(t, 1, p) \o <<x>> \o SubSeq(t, p + 1, Len(t))

\* a descending sort that puts the later of two equal elements first
RECURSIVE sort_LaterFirst(_)
sort_LaterFirst(l) ==
    IF l = <<>> THEN <<>>
    ELSE LET x == l[Len(l)]
             t == sort_LaterFirst(SubSeq(l, 1, Len(l) - 1))
             p == Cardinality({i \in 1..Len(t) : t[i][1] > x[1]})
         IN  SubSeq(t, 1, p) \o <<x>> \o SubSeq(t, p + 1, Len(t))

\* scores.sort(key=lambda x: x[0], reverse=True)
RECURSIVE sort(_)
sort(l) ==
    IF l = <<>> THEN <<>>
    ELSE insert(l[Len(l)], sort(SubSeq(l, 1, Len(l) - 1)))

\* arg[i] is the score of the i-th unlabeled candidate
InitScores ==
    /\ InitGrid /\ InitAL /\ InitRun
    /\ arg \in UNION {[1..m -> 0..MaxScore] : m \in 1..MaxUnlabeled}
    /\ out = 0
    /\ done = FALSE
    /\ rng = 0

\* scores.append((score, knobs)) for each unlabeled candidate in turn, the
\* sort, and return scores[0][1]
ReturnBestScored ==
    /\ ~done
    /\ LET scores == [i \in 1..Len(arg) |-> <<arg[i], i>>]
       IN  out' = sort(scores)[1][2]
    /\ done' = TRUE
    /\ UNCHANGED arg

NextScores ==
    \/ ReturnBestScored /\ UNCHANGED <<launchVars, gridVars, alVars, runVars, rng>>

SpecScores == InitScores /\ [][NextScores]_vars

(***************************************************************************)
(* ezr_select_next as a whole, called twice on the same arguments. The     *)
(* candidates are named 1..n by their place in the list. The generator of  *)
(* the random module is a state: random.seed sets it to a function of the  *)
(* seed, random.choice picks by it. The scores that the ezr library gives  *)
(* the candidates are a table fixed for both calls: the library computes   *)
(* them from the rows and from the generator the call has just seeded.     *)
(***************************************************************************)
MaxCandidates == 5
FIXED_SEED    == 42

RngStates   == 0..(MaxCandidates - 1)
Seeds       == FIXED_SEED..(FIXED_SEED + MaxCandidates - 1)
ScoreTables(n) == [1..n -> {0, 1}]

\* a call that leaves the generator as it finds it
random_seed_Keep(seed, g) == g

\* random.seed(seed): the state of the generator afterwards
random_seed(seed, g) == seed % Cardinality(RngStates)

\* random.choice(l) with the generator in state g
random_choice(l, g) == l[(g % Len(l)) + 1]

\* the rows of candidates whose knob tuple is not in evaluated, in order
unlabeled_candidates(n, ev) ==
    LET f[i \in 0..n] == IF i = 0 THEN <<>>
                         ELSE IF i \in ev THEN f[i - 1]
                         ELSE Append(f[i - 1], i)
    IN  f[n]

\* a selector that scores the candidates however few rows are labeled
select_next_AlwaysScored(n, ev, seed, likes, g) ==
    LET unlabeled == unlabeled_candidates(n, ev)
    IN  IF unlabeled = <<>> THEN None
        ELSE sort([i \in 1..Len(unlabeled) |->
                      <<likes[unlabeled[i]], unlabeled[i]>>])[1][2]

\* ezr_select_next(candidates, evaluated, seed), entered with the generator
\* in state g
select_next(n, ev, seed, likes, g) ==
    LET seeded       == random_seed(seed, g)
        labeled_rows == {i \in 1..n : i \in ev}
        unlabeled    == unlabeled_candidates(n, ev)
    IN  IF unlabeled = <<>> THEN None
        ELSE IF Cardinality(labeled_rows) < 2 THEN random_choice(unlabeled, seeded)
        ELSE sort([i \in 1..Len(unlabeled) |->
                      <<likes[unlabeled[i]], unlabeled[i]>>])[1][2]

InitSelect ==
    /\ InitGrid /\ InitAL /\ InitRun
    /\ arg \in UNION {[n : {n}, evaluated : SUBSET (1..n), seed : Seeds,
                       likes : ScoreTables(n)] : n \in 1..MaxCandidates}
    /\ out = <<>>
    /\ done = FALSE
    /\ rng \in RngStates

\* next_knobs_vals = ezr_select_next(candidates, evaluated, seed)
Invoke ==
    /\ ~done
    /\ out' = Append(out, select_next(arg.n, arg.evaluated, arg.seed, arg.likes, rng))
    /\ rng' = random_seed(arg.seed, rng)
    /\ done' = (Len(out) = 1)
    /\ UNCHANGED arg

\* random draws made elsewhere, before a call
DrawElsewhere ==
    /\ ~done
    /\ \E g \in RngStates \ {rng} : rng' = g
    /\ UNCHANGED <<arg, out, done>>

NextSelect ==
    \/ Invoke        /\ UNCHANGED <<launchVars, gridVars, alVars, runVars>>
    \/ DrawElsewhere /\ UNCHANGED <<launchVars, gridVars, alVars, runVars>>

SpecSelect == InitSelect /\ [][NextSelect]_vars

(***************************************************************************)
(* The two metrics extractors on one stats artifact and one bug report:    *)
(* extract_metrics_from_workdir (build_dataset.py) and extract_metrics     *)
(* (ezr_driver.py). The nested report (fuzzer / target / program / run) is *)
(* the sequence of its runs in the order the loops visit them; a run is    *)
(* either well formed, with its numbers of triggered and reached bugs, or  *)
(* the place where the report is malformed.                                *)
(***************************************************************************)
MaxRuns == 2

\* fuzzer_stats files with any subset of the keys, the coverage with its %
PartialStats == {Stats(c, p, e) :
                    c \in {NoText, Text(0, TRUE), Text(12, TRUE)},
                    p \in {NoText, Text(0, FALSE), Text(5, FALSE)},
                    e \in {NoText, Text(0, FALSE), Text(200, FALSE)}}

Run(t, r)  == [ok |-> TRUE, triggered |-> t, reached |-> r]
Malformed  == [ok |-> FALSE, triggered |-> 0, reached |-> 0]
NoReport      == [kind |-> "absent", runs |-> <<>>]
CorruptReport == [kind |-> "corrupt", runs |-> <<>>]
BugReports ==
    {NoReport, CorruptReport} \cup
    {[kind |-> "json", runs |-> r] :
        r \in UNION {[1..k -> {Malformed, Run(1, 1), Run(0, 2)}] : k \in 0..MaxRuns}}

\* the loops over bugs.json: the counts are added to run by run, until the
\* end of the report or until an exception, which the handler only prints
RECURSIVE bug_counts(_, _)
bug_counts(runs, sofar) ==
    IF runs = <<>> THEN sofar
    ELSE IF ~Head(runs).ok THEN sofar
    ELSE bug_counts(Tail(runs), [triggered |-> sofar.triggered + Head(runs).triggered,
                                 reached   |-> sofar.reached + Head(runs).reached])

\* extract_metrics(elapsed): each value is stripped of a trailing % before
\* float() or int(); a key that is not in the file keeps its default
extract_metrics(w, report) ==
    LET val(key) == IF w.kind = "stats" /\ w[key] # NoText
                    THEN [w[key] EXCEPT !.pct = FALSE]
                    ELSE Text(0, FALSE)
        counts   == IF report.kind = "json"
                    THEN bug_counts(report.runs, [triggered |-> 0, reached |-> 0])
                    ELSE [triggered |-> 0, reached |-> 0]
    IN  [Json(val("bitmap_cvg").num, val("paths_total").num,
              val("execs_done").num, 0)
            EXCEPT !.bugs_triggered = counts.triggered,
                   !.bugs_reached = counts.reached]

InitExtract ==
    /\ InitGrid /\ InitAL /\ InitRun
    /\ arg \in [stats : PartialStats \cup {NoStats}, bugs : BugReports]
    /\ out = [by |-> "none", metrics |-> NoMetrics]
    /\ done = FALSE
    /\ rng = 0

\* build_dataset: extract_metrics_from_workdir(workdir, RESULTS_DIR, label);
\* no metrics record is the outcome of a return without one and of an
\* exception
ExtractFromWorkdir ==
    /\ ~done
    /\ out' = [by |-> "extract_metrics_from_workdir",
               metrics |-> extract_metrics_from_workdir(arg.stats, NoMetrics)]
    /\ done' = TRUE
    /\ UNCHANGED arg

\* ezr_driver: metrics = extract_metrics(elapsed)
ExtractMetrics ==
    /\ ~done
    /\ out' = [by |-> "extract_metrics",
               metrics |-> extract_metrics(arg.stats, arg.bugs)]
    /\ done' = TRUE
    /\ UNCHANGED arg

NextExtract ==
    \/ ExtractFromWorkdir /\ UNCHANGED <<launchVars, gridVars, alVars, runVars, rng>>
    \/ ExtractMetrics     /\ UNCHANGED <<launchVars, gridVars, alVars, runVars, rng>>

SpecExtract == InitExtract /\ [][NextExtract]_vars

(***************************************************************************)
(* aggregate_results.py on one results directory: the directory is missing *)
(* or holds combination directories, each with the metrics.json it has.    *)
(***************************************************************************)
MaxDirs == 3

EmptyMetrics == [kind |-> "empty", bitmap_cvg_pct |-> 0, paths_total |-> 0,
                 execs_done |-> 0, bugs_triggered |-> 0, bugs_reached |-> 0]
MissingDir == [kind |-> "missing", combo_dirs |-> <<>>]
ResultsDirs ==
    {MissingDir} \cup
    {[kind |-> "dir", combo_dirs |-> d] :
        d \in UNION {[1..k -> {NoMetrics, CorruptMetrics, EmptyMetrics, Json(12, 5, 200, 1)}]
                        : k \in 0..MaxDirs}}

\* main(): its return value (Absent when it raises instead of returning) and
\* whether it has written the CSV. load_metrics returns None without the
\* file, raises on a file that does not parse; "if not metrics" also skips {}.
aggregate_main(dir) ==
    LET combo_dirs == dir.combo_dirs
        results    == {i \in 1..Len(combo_dirs) : combo_dirs[i].kind = "json"}
    IN  IF dir.kind = "missing" THEN [code |-> 1, csv |-> FALSE]
        ELSE IF combo_dirs = <<>> THEN [code |-> 1, csv |-> FALSE]
        ELSE IF \E i \in 1..Len(combo_dirs) : combo_dirs[i].kind = "corrupt"
             THEN [code |-> Absent, csv |-> FALSE]
        ELSE IF results = {} THEN [code |-> 1, csv |-> FALSE]
        ELSE [code |-> 0, csv |-> TRUE]

InitAggregate ==
    /\ InitGrid /\ InitAL /\ InitRun
    /\ arg \in ResultsDirs
    /\ out = [by |-> "none", code |-> Absent, csv |-> FALSE]
    /\ done = FALSE
    /\ rng = 0

\* python3 scripts/aggregate_results.py: the last line is sys.exit(main()),
\* and the module never imports sys. The name sys is looked up before the
\* argument main() is evaluated: NameError, main is not called, the
\* interpreter ends with exit code 1.
RunAggregator ==
    /\ ~done
    /\ out' = [by |-> "script", code |-> 1, csv |-> FALSE]
    /\ done' = TRUE
    /\ UNCHANGED arg

\* main() called from a program that has imported the module
CallMain ==
    /\ ~done
    /\ out' = [by |-> "main", code |-> aggregate_main(arg).code,
               csv |-> aggregate_main(arg).csv]
    /\ done' = TRUE
    /\ UNCHANGED arg

NextAggregate ==
    \/ RunAggregator /\ UNCHANGED <<launchVars, gridVars, alVars, runVars, rng>>
    \/ CallMain      /\ UNCHANGED <<launchVars, gridVars, alVars, runVars, rng>>

SpecAggregate == InitAggregate /\ [][NextAggregate]_vars

(***************************************************************************)
(* generate_combinations (build_dataset.py), on k knobs with values [0, 1] *)
(***************************************************************************)
MaxKnobs == 6

param_values == <<0, 1>>

\* itertools.product(*param_values) as the iterator it is: the first tuple
\* it yields, the tuple after a given one (the last knob changes fastest),
\* and the tuple after which it is exhausted.
product_first(k) == [j \in 1..k |-> param_values[1]]
product_last(k)  == [j \in 1..k |-> param_values[Len(param_values)]]
product_next(combo) ==
    LET k    == Len(combo)
        at(v) == CHOOSE i \in 1..Len(param_values) : param_values[i] = v
        p    == CHOOSE q \in 1..k :
                    /\ combo[q] # param_values[Len(param_values)]
                    /\ \A r \in (q + 1)..k : combo[r] = param_values[Len(param_values)]
    IN  [j \in 1..k |-> IF j < p THEN combo[j]
                        ELSE IF j = p THEN param_values[at(combo[j]) + 1]
                        ELSE param_values[1]]

\* the digits read with the first knob as the lowest bit
RECURSIVE combo_id_LowFirst(_)
combo_id_LowFirst(combo) ==
    IF combo = <<>> THEN 0
    ELSE Head(combo) + 2 * combo_id_LowFirst(Tail(combo))

\* int(binary_str, 2), binary_str being the knob values joined in knob order
RECURSIVE combo_id(_)
combo_id(combo) ==
    IF combo = <<>> THEN 0
    ELSE 2 * combo_id(SubSeq(combo, 1, Len(combo) - 1)) + combo[Len(combo)]

InitCombos ==
    /\ InitGrid /\ InitAL /\ InitRun
    /\ arg \in 1..MaxKnobs
    /\ out = <<>>
    /\ done = FALSE
    /\ rng = 0

\* one turn of the loop over itertools.product: combinations.append((label, combo_dict))
CombosAppend ==
    /\ ~done
    /\ IF out = <<>> THEN TRUE ELSE out[Len(out)].combo # product_last(arg)
    /\ LET combo == IF out = <<>> THEN product_first(arg)
                    ELSE product_next(out[Len(out)].combo)
       IN  out' = Append(out, [label |-> combo_id(combo), combo |-> combo])
    /\ UNCHANGED <<arg, done>>

\* the iterator is exhausted: return combinations
CombosReturn ==
    /\ ~done
    /\ IF out = <<>> THEN FALSE ELSE out[Len(out)].combo = product_last(arg)
    /\ done' = TRUE
    /\ UNCHANGED <<arg, out>>

NextCombos ==
    \/ CombosAppend /\ UNCHANGED <<launchVars, gridVars, alVars, runVars, rng>>
    \/ CombosReturn /\ UNCHANGED <<launchVars, gridVars, alVars, runVars, rng>>

SpecCombos == InitCombos /\ [][NextCombos]_vars

(***************************************************************************)
(* parse_timeout (build_dataset.py). A string is a sequence of characters. *)
(***************************************************************************)
MaxDuration == 500

Digits == <<"0", "1", "2", "3", "4", "5", "6", "7", "8", "9">>
Units  == {<<>>, <<"m">>, <<"h">>, <<"s">>}

\* the decimal numeral of n, as the caller writes it on the command line
RECURSIVE decimal(_)
decimal(n) ==
    IF n < 10 THEN <<Digits[n + 1]>>
    ELSE decimal(n \div 10) \o <<Digits[(n % 10) + 1]>>

\* int(s) for a non-empty string of digits
RECURSIVE int(_)
int(s) ==
    IF s = <<>> THEN 0
    ELSE 10 * int(SubSeq(s, 1, Len(s) - 1))
           + ((CHOOSE i \in 1..10 : Digits[i] = s[Len(s)]) - 1)

endswith(s, c) == s # <<>> /\ s[Len(s)] = c

\* parse_timeout that reads a bare number as seconds
parse_timeout_BareSeconds(timeout_str) ==
    LET s == timeout_str
    IN  IF endswith(s, "m") THEN int(SubSeq(s, 1, Len(s) - 1)) * 60
        ELSE IF endswith(s, "h") THEN int(SubSeq(s, 1, Len(s) - 1)) * 3600
        ELSE IF endswith(s, "s") THEN int(SubSeq(s, 1, Len(s) - 1))
        ELSE int(s)

\* parse_timeout(timeout_str)
parse_timeout(timeout_str) ==
    LET s == timeout_str
    IN  IF endswith(s, "m") THEN int(SubSeq(s, 1, Len(s) - 1)) * 60
        ELSE IF endswith(s, "h") THEN int(SubSeq(s, 1, Len(s) - 1)) * 3600
        ELSE IF endswith(s, "s") THEN int(SubSeq(s, 1, Len(s) - 1))
        ELSE int(s) * 60

InitTimeout ==
    /\ InitGrid /\ InitAL /\ InitRun
    /\ arg \in {decimal(n) \o u : n \in 0..MaxDuration, u \in Units}
    /\ out = 0
    /\ done = FALSE
    /\ rng = 0

\* timeout_seconds = parse_timeout(args.budget)
ParseTimeout ==
    /\ ~done
    /\ out' = parse_timeout(arg)
    /\ done' = TRUE
    /\ UNCHANGED arg

NextTimeout ==
    \/ ParseTimeout /\ UNCHANGED <<launchVars, gridVars, alVars, runVars, rng>>

SpecTimeout == InitTimeout /\ [][NextTimeout]_vars

(***************************************************************************)
(* One campaign of the grid driver, timed in seconds: run_campaign and the *)
(* resolution of its combination in main.                                  *)
(***************************************************************************)
MaxFuzzSeconds == 3

\* a deadline without the buffer
effective_timeout_NoBuffer(t) == t

\* effective_timeout = timeout_seconds + 300
effective_timeout(t) == t + 300

\* the try branch without its too-fast test
run_campaign_NoSentinel(rc, e) == rc = 0

\* what run_campaign returns when subprocess.run has returned with exit
\* code rc after e seconds
run_campaign(rc, e) ==
    IF rc # 0 THEN FALSE
    ELSE IF e < 5 THEN FALSE
    ELSE TRUE

InitCampaign ==
    /\ InitGrid /\ InitAL /\ InitPure
    /\ timeout_seconds \in {parse_timeout(decimal(n) \o <<"s">>) : n \in 0..MaxFuzzSeconds}
    /\ elapsed = 0
    /\ runPc = "idle"
    /\ returncode = Absent
    /\ artifact = NoMetrics
    /\ run_ok = FALSE
    /\ resolution = "none"

\* start_time = time.time(); subprocess.run(cmd, ..., timeout=effective_timeout)
Launch ==
    /\ runPc = "idle"
    /\ runPc' = "running"
    /\ UNCHANGED <<timeout_seconds, elapsed, returncode, artifact, run_ok, resolution>>

\* a second passes with the runner active; subprocess.run waits no longer
\* than its timeout
Tick ==
    /\ runPc = "running"
    /\ elapsed < effective_timeout(timeout_seconds)
    /\ elapsed' = elapsed + 1
    /\ UNCHANGED <<timeout_seconds, runPc, returncode, artifact, run_ok, resolution>>

\* the runner exits by itself, leaving what it leaves for its label
RunnerExits ==
    /\ runPc = "running"
    /\ \E rc \in {0, 1} : returncode' = rc
    /\ \E m \in RunnerMetrics \cup {NoMetrics} : artifact' = m
    /\ runPc' = "exited"
    /\ UNCHANGED <<timeout_seconds, elapsed, run_ok, resolution>>

\* the runner is still active at the deadline: subprocess.run kills it and
\* raises TimeoutExpired
DeadlinePasses ==
    /\ runPc = "running"
    /\ elapsed = effective_timeout(timeout_seconds)
    /\ \E m \in RunnerMetrics \cup {NoMetrics} : artifact' = m
    /\ runPc' = "killed"
    /\ UNCHANGED <<timeout_seconds, elapsed, returncode, run_ok, resolution>>

\* elapsed = time.time() - start_time; the tests on returncode and elapsed
Return ==
    /\ runPc = "exited"
    /\ run_ok' = run_campaign(returncode, elapsed)
    /\ runPc' = "check"
    /\ UNCHANGED <<timeout_seconds, elapsed, returncode, artifact, resolution>>

\* except subprocess.TimeoutExpired: salvage from the workdir, return False
ReturnTimeout ==
    /\ runPc = "killed"
    /\ \E w \in Workdirs : artifact' = extract_metrics_from_workdir(w, artifact)
    /\ run_ok' = FALSE
    /\ runPc' = "timedout"
    /\ UNCHANGED <<timeout_seconds, elapsed, returncode, resolution>>

\* is_complete = check_combo_complete(label); if success and is_complete: ...
ResolveCampaign ==
    /\ runPc \in {"check", "timedout"}
    /\ resolution' = IF run_ok /\ check_combo_complete(artifact)
                     THEN "Completed" ELSE "Failed"
    /\ UNCHANGED <<timeout_seconds, elapsed, runPc, returncode, artifact, run_ok>>
    /\ resolution = "none"

NextCampaign ==
    \/ Launch          /\ UNCHANGED <<launchVars, gridVars, alVars, pureVars>>
    \/ Tick            /\ UNCHANGED <<launchVars, gridVars, alVars, pureVars>>
    \/ RunnerExits     /\ UNCHANGED <<launchVars, gridVars, alVars, pureVars>>
    \/ DeadlinePasses  /\ UNCHANGED <<launchVars, gridVars, alVars, pureVars>>
    \/ Return          /\ UNCHANGED <<launchVars, gridVars, alVars, pureVars>>
    \/ ReturnTimeout   /\ UNCHANGED <<launchVars, gridVars, alVars, pureVars>>
    \/ ResolveCampaign /\ UNCHANGED <<launchVars, gridVars, alVars, pureVars>>

SpecCampaign == InitCampaign /\ [][NextCampaign]_vars

(***************************************************************************)
(* One campaign of the active-learning driver, timed in seconds by steps   *)
(* of a minute: run_docker_campaign(knobs, label_name, timeout,            *)
(* docker_host), called by main with timeout = args.timeout.               *)
(***************************************************************************)
MaxTimeoutMinutes == 20

\* a minute as --timeout spells it, read the way the grid driver reads it
Minute == parse_timeout(decimal(1) \o <<"m">>)

\* subprocess.run(cmd, ..., timeout=900)
DockerDeadline == 900

\* --timeout ("5m" by default), in seconds
Timeouts == {parse_timeout(decimal(m) \o <<"m">>) : m \in 1..MaxTimeoutMinutes}

\* the workdir the runner leaves: without fuzzer_stats, or with it
DockerWorkdirs == {NoStats,
                   Stats(Text(12, TRUE), Text(5, FALSE), Text(200, FALSE))}

InitDocker ==
    /\ InitGrid /\ InitAL /\ InitPure
    /\ timeout_seconds \in Timeouts
    /\ elapsed = 0
    /\ runPc = "idle"
    /\ returncode = Absent
    /\ artifact = NoMetrics
    /\ run_ok = FALSE
    /\ resolution = "none"

\* start_time = time.time(); subprocess.run(cmd, ..., timeout=900): the
\* parameter timeout is in neither the command, the environment nor the call
DockerLaunch ==
    /\ runPc = "idle"
    /\ runPc' = "running"
    /\ UNCHANGED <<timeout_seconds, elapsed, returncode, artifact, run_ok, resolution>>

\* a minute passes with the runner active; subprocess.run waits no longer
\* than 900 seconds
DockerTick ==
    /\ runPc = "running"
    /\ elapsed < DockerDeadline
    /\ elapsed' = elapsed + Minute
    /\ UNCHANGED <<timeout_seconds, runPc, returncode, artifact, run_ok, resolution>>

\* the runner exits by itself
DockerExits ==
    /\ runPc = "running"
    /\ \E rc \in {0, 1} : returncode' = rc
    /\ runPc' = "exited"
    /\ UNCHANGED <<timeout_seconds, elapsed, artifact, run_ok, resolution>>

\* the runner is still active after 900 seconds: subprocess.run kills it and
\* raises TimeoutExpired, which neither run_docker_campaign nor main catches
DockerDeadlinePasses ==
    /\ runPc = "running"
    /\ elapsed = DockerDeadline
    /\ runPc' = "crashed"
    /\ resolution' = "traceback"
    /\ UNCHANGED <<timeout_seconds, elapsed, returncode, artifact, run_ok>>

\* metrics = extract_metrics(elapsed); return metrics, which main records in
\* evaluated and all_results
DockerReturns ==
    /\ runPc = "exited"
    /\ \E w \in DockerWorkdirs : artifact' = extract_metrics(w, NoReport)
    /\ resolution' = "recorded"
    /\ runPc' = "returned"
    /\ UNCHANGED <<timeout_seconds, elapsed, returncode, run_ok>>

NextDocker ==
    \/ DockerLaunch         /\ UNCHANGED <<launchVars, gridVars, alVars, pureVars>>
    \/ DockerTick           /\ UNCHANGED <<launchVars, gridVars, alVars, pureVars>>
    \/ DockerExits          /\ UNCHANGED <<launchVars, gridVars, alVars, pureVars>>
    \/ DockerDeadlinePasses /\ UNCHANGED <<launchVars, gridVars, alVars, pureVars>>
    \/ DockerReturns        /\ UNCHANGED <<launchVars, gridVars, alVars, pureVars>>

SpecDocker == InitDocker /\ [][NextDocker]_vars

(***************************************************************************)
(* The claims, in their order                                              *)
(***************************************************************************)
Launched == {"running", "check", "save_done", "save_fail"}
InLoop   == {"loop", "save_inprog"} \cup Launched
ZeroExecs(m) == m.kind = "json" /\ m.execs_done \in {0, Absent}

\* C1: while the runner for a label is active (and until its resolution is
\* saved) the state file on disk is a complete state whose in_progress is
\* that label; so a kill of the driver in that span leaves in_progress
\* pointing at the active label.
C1_InProgressSavedBeforeRun ==
    /\ pc \in {"running", "check"} =>
          stateFile.kind = "ok" /\ stateFile.in_progress = label
    /\ pc = "killed" /\ lostAt.label # None =>
          stateFile.kind = "ok" /\ stateFile.in_progress = lostAt.label

C1_Witness ==
    /\ pc = "killed"
    /\ lostAt.label = NumCombos
    /\ stateFile.in_progress = NumCombos

\* C2: an invocation that starts with in_progress = L (L not completed) and a
\* valid artifact for L has, once past the resume logic, L in completed, the
\* cleared in_progress saved before the loop starts, and never runs L.
C2_ResumeWithoutRerun ==
    resumable # None =>
        /\ pc \in InLoop \cup {"save_promote"} =>
              resumable \in completed_set /\ resumable \in state.completed
        /\ pc = "loop" /\ idx = 1 =>
              /\ stateFile.kind = "ok"
              /\ stateFile.in_progress = None
              /\ resumable \in stateFile.completed
        /\ pc \in InLoop /\ stateFile.kind = "ok" =>
              resumable \in stateFile.completed /\ stateFile.in_progress # resumable
        /\ pc \in {"save_inprog"} \cup Launched => label # resumable

C2_Witness ==
    /\ resumable # None
    /\ pc = "running"
    /\ resumable \in stateFile.completed

\* C3: a label whose attempt resolved to Failed is in the persisted completed
\* set only if some launch of it exited successfully and was validated by
\* check_combo_complete.
C3_CompletedOnlyAfterValidatedLaunch ==
    stateFile.kind = "ok" =>
        \A l \in stateFile.completed : l \in failed => l \in validated

\* C4: every saved state has in_progress null or not a member of completed.
C4_InProgressNotCompleted ==
    stateFile.kind = "ok" =>
        stateFile.in_progress = None \/ stateFile.in_progress \notin stateFile.completed

C4_Witness ==
    /\ stateFile.kind = "ok"
    /\ stateFile.in_progress # None
    /\ stateFile.completed # {}

\* C5: after a kill of the driver the state file is absent or a complete
\* state, never a truncated one.
C5_SaveAtomic ==
    pc = "killed" => stateFile.kind \in {"absent", "ok"}

C7_NoAutomaticRetry ==
    pc = "running" /\ lostAt.label = None => label \notin failed

\* C8: a campaign failure never ends the active-learning driver with the
\* results measured so far unwritten.
C8_FailureNeverAborts ==
    ~(alPc = "crashed" /\ all_results > 0 /\ ~written)

\* C9: after a timeout with a stats artifact in the documented format
\* (coverage with a trailing %) and paths_total > 0, the metrics record of
\* the label holds the artifact's values with the bug fields 0.
C9_TimeoutSalvage ==
    /\ pc = "check"
    /\ outcome = "timeout"
    /\ stats.kind = "stats"
    /\ stats.bitmap_cvg.pct
    /\ stats.paths_total.num > 0
    => metrics[label] = Json(stats.bitmap_cvg.num, stats.paths_total.num,
                             get(stats, "execs_done").num, 0)

\* C10: check_combo_complete rejects every record whose execs_done is 0 or
\* missing, and no label in completed (in memory or on disk) has such a
\* record.
C10_ZeroExecsRejected ==
    /\ \A l \in Labels : ZeroExecs(metrics[l]) => ~check_combo_complete(metrics[l])
    /\ \A l \in completed_set \cup state.completed \cup stateFile.completed :
          metrics[l].kind = "json" /\ ~ZeroExecs(metrics[l])

C10_Witness ==
    /\ pc = "save_fail"
    /\ outcome = "ok"
    /\ ZeroExecs(metrics[label])
    /\ metrics[label].paths_total = 5

\* C11: a driver started on an unparseable state file aborts: it is never
\* running (past its own half-done save) while the file is unparseable, so it
\* launches nothing and saves nothing, and after the abort the file is still
\* the unparseable one, neither overwritten nor reset.
C11_CorruptStateAborts ==
    /\ pc = "aborted" => stateFile = PartialFile /\ ~fileOpen
    /\ stateFile.kind = "partial" /\ pc \notin Stopped => fileOpen

C11_Witness == pc = "aborted" /\ stateFile.kind = "partial"

\* C12: with no state file, load_state gives, without an abort, the fresh
\* state (completed empty, in_progress null), so no combination is skipped
\* or promoted by a first run.
C12_MissingStateIsFresh ==
    /\ stateFile.kind = "absent" => pc \in {"idle", "killed", "save_init"}
    /\ pc = "save_init" /\ ~fileOpen /\ stateFile.kind = "absent"
         => /\ state = NoState
            /\ \A l \in Labels : l \notin state.completed
            /\ resumable = None

C12_Witness == pc = "save_init" /\ ~fileOpen /\ stateFile.kind = "absent"

\* C13: for k knobs with values [0, 1], generate_combinations returns 2^k
\* pairs whose labels are 0 .. 2^k - 1, each once, the label of a pair being
\* the base-2 value of its knob values read in knob order (first knob the
\* highest bit); for two knobs combo_0 is (0, 0) and combo_3 is (1, 1).
C13_LabelDeterminism ==
    done =>
      LET k == arg
          value(c) == LET f[j \in 0..k] ==
                            IF j = 0 THEN 0 ELSE f[j - 1] + c[j] * 2^(k - j)
                      IN  f[k]
      IN  /\ Len(out) = 2^k
          /\ {out[i].label : i \in 1..Len(out)} = 0..(2^k - 1)
          /\ \A i, j \in 1..Len(out) : out[i].label = out[j].label => i = j
          /\ \A i \in 1..Len(out) :
                /\ out[i].combo \in [1..k -> {0, 1}]
                /\ out[i].label = value(out[i].combo)
          /\ k = 2 => \E i, j \in 1..Len(out) :
                         /\ out[i] = [label |-> 0, combo |-> <<0, 0>>]
                         /\ out[j] = [label |-> 3, combo |-> <<1, 1>>]

C13_Witness == done /\ arg = 2 /\ Len(out) = 4 /\ out[4].combo = <<1, 1>>

\* C14: for a non-negative integer n, parse_timeout gives 60 n for "<n>m",
\* 3600 n for "<n>h", n for "<n>s" and 60 n for the bare "<n>"; "20m" gives
\* 1200 and "500s" gives 500.
C14_ParseTimeout ==
    done =>
      /\ \A n \in 0..MaxDuration :
            /\ arg = decimal(n) \o <<"m">> => out = 60 * n
            /\ arg = decimal(n) \o <<"h">> => out = 3600 * n
            /\ arg = decimal(n) \o <<"s">> => out = n
            /\ arg = decimal(n)            => out = 60 * n
      /\ arg = <<"2", "0", "m">> => out = 1200
      /\ arg = <<"5", "0", "0", "s">> => out = 500

C14_Witness == done /\ arg = <<"2", "0">> /\ out = 1200

\* C15: a runner is never active later than fuzz budget + 300 seconds after
\* its launch; a campaign times out exactly when its runner is still active
\* at that deadline, the runner is then no longer running and the campaign
\* fails.
C15_LaunchDeadline ==
    /\ runPc = "running" => elapsed <= timeout_seconds + 300
    /\ runPc \in {"killed", "timedout"} =>
          /\ elapsed = timeout_seconds + 300
          /\ returncode = Absent
    /\ runPc = "timedout" => ~run_ok /\ resolution # "Completed"

C15_Witness ==
    /\ runPc = "timedout"
    /\ timeout_seconds = 2 /\ elapsed = 302
    /\ resolution = "Failed"

\* C16: when the runner has returned in less than 5 seconds, run_campaign
\* returns False whatever the exit code, and the combination resolves to
\* Failed, also with a metrics artifact that passes check_combo_complete.
C16_TooFastSentinel ==
    runPc = "check" /\ elapsed < 5 =>
        /\ ~run_ok
        /\ resolution \in {"none", "Failed"}

C16_Witness ==
    /\ runPc = "check" /\ elapsed < 5 /\ returncode = 0
    /\ check_combo_complete(artifact)
    /\ resolution = "Failed"

\* C17: whenever some candidate of the grid is not in evaluated,
\* ezr_select_next returns a candidate that is not in evaluated; the knob
\* tuple of a campaign being run has not been run before, so that a run has
\* run as many distinct tuples as campaigns.
C17_SelectorNonRepetition ==
    /\ \A picked \in ezr_select_next(generate_candidate_grid, evaluated) :
          (\E c \in generate_candidate_grid : c \notin evaluated) =>
              /\ picked \in generate_candidate_grid
              /\ picked \notin evaluated
    /\ alPc = "campaign" => next_knobs \notin evaluated
    /\ all_results = Cardinality(evaluated)

C17_Witness ==
    /\ alPc = "campaign" /\ all_results = 2
    /\ baseline_knobs \in evaluated /\ next_knobs \notin evaluated

C19_BestIsCeilSqrt ==
    done =>
      LET n == arg
          k == CHOOSE r \in 1..n : (r - 1) * (r - 1) < n /\ n <= r * r
      IN  /\ out.best = [i \in 1..k |-> i]
          /\ out.rest = [i \in 1..(n - k) |-> k + i]

\* C19, amended: with n >= 2 labeled rows, best is the top k rows by rank and
\* rest the n - k rows after them, k being the integer nearest to sqrt(n)
\* (k^2 - k < n <= k^2 + k).
C19_BestIsRoundSqrt ==
    done =>
      LET n == arg
          k == CHOOSE r \in 1..n : r * r - r < n /\ n <= r * r + r
      IN  /\ out.best = [i \in 1..k |-> i]
          /\ out.rest = [i \in 1..(n - k) |-> k + i]

C19_Witness == done /\ arg = 2 /\ out.best = <<1>> /\ out.rest = <<2>>

\* C20: the candidate returned has a score no unlabeled candidate exceeds,
\* and every candidate before it in enumeration order has a smaller score.
C20_FirstOfTheBestScored ==
    done =>
      /\ out \in 1..Len(arg)
      /\ \A j \in 1..Len(arg) : arg[j] <= arg[out]
      /\ \A j \in 1..(out - 1) : arg[j] < arg[out]

C20_Witness == done /\ arg = <<1, 2, 0, 2>> /\ out = 2

\* C21: two calls of ezr_select_next with the same candidates, evaluated map
\* and seed return the same candidate, whatever the generator's state was
\* before each call.
C21_SelectorDeterminism ==
    done => out[1] = out[2]

C21_Witness ==
    /\ done /\ out[1] = out[2] /\ out[1] # None
    /\ arg.n = 5 /\ Cardinality(arg.evaluated) \in {1, 2}

\* C22: with fewer than 2 labeled rows and an unlabeled candidate left, the
\* call returns the unlabeled candidate that random.choice picks under the
\* seed, whatever the scores would be; and every unlabeled candidate is
\* returned under some seed.
C22_RandomPick ==
    LET unlabeled == unlabeled_candidates(arg.n, arg.evaluated)
    IN  Len(out) >= 1 /\ Cardinality(arg.evaluated) < 2 /\ unlabeled # <<>> =>
          /\ \E i \in 1..Len(unlabeled) : out[1] = unlabeled[i]
          /\ \A t \in ScoreTables(arg.n), g \in RngStates :
                select_next(arg.n, arg.evaluated, arg.seed, t, g) = out[1]
          /\ \A i \in 1..Len(unlabeled) : \E s \in Seeds, g \in RngStates :
                select_next(arg.n, arg.evaluated, s, arg.likes, g) = unlabeled[i]

C22_Witness ==
    /\ Len(out) >= 1 /\ arg.n = 5 /\ arg.evaluated = {1}
    /\ out[1] = 3 /\ arg.likes[3] = 0 /\ arg.likes[2] = 1

\* C23: on a stats artifact holding any subset of the keys, the coverage
\* with a trailing %, each extractor returns a metrics record where a
\* present key has the artifact's value, the % stripped, and a missing key
\* is 0.
C23_ExtractionTotal ==
    done /\ arg.stats.kind = "stats" =>
        LET value(key) == IF arg.stats[key] = NoText THEN 0 ELSE arg.stats[key].num
        IN  /\ out.metrics.kind = "json"
            /\ out.metrics.bitmap_cvg_pct = value("bitmap_cvg")
            /\ out.metrics.paths_total = value("paths_total")
            /\ out.metrics.execs_done = value("execs_done")

\* C24: with the bug report absent, unparseable or malformed at some run,
\* extract_metrics returns a record with bugs_triggered and bugs_reached 0.
C24_BugReportDefaulted ==
    /\ done /\ out.by = "extract_metrics"
    /\ \/ arg.bugs.kind # "json"
       \/ \E i \in 1..Len(arg.bugs.runs) : ~arg.bugs.runs[i].ok
    => /\ out.metrics.kind = "json"
       /\ out.metrics.bugs_triggered = 0
       /\ out.metrics.bugs_reached = 0

\* C25: the aggregator run as a program exits with code 0 when the results
\* directory holds at least one valid metrics record (and none that fails
\* to load), having written the CSV, and with a non-zero code when the
\* directory is missing, has no combination directory or no valid record.
C25_AggregatorExitCodes ==
    done /\ out.by = "script" =>
        LET dirs  == arg.combo_dirs
            valid == {i \in 1..Len(dirs) : dirs[i].kind = "json"}
            bad   == {i \in 1..Len(dirs) : dirs[i].kind = "corrupt"}
        IN  /\ valid # {} /\ bad = {} => out.code = 0 /\ out.csv
            /\ valid = {} => out.code # 0

\* C26 as stated: when an invocation that was not killed has gone through
\* the loop, it has launched every combination that was not in the completed
\* list it loaded, each once and in enumeration order, and the persisted
\* in_progress is null.
C26_EveryPendingLaunched ==
    pc = "loop" /\ idx > NumCombos =>
        /\ {launched[i] : i \in 1..Len(launched)} = Labels \ atStart
        /\ \A i, j \in 1..Len(launched) : i < j => launched[i] < launched[j]
        /\ stateFile.in_progress = None

\* C26, amended: an invocation that is not killed and gets to its loop
\* launches the combinations that are not completed after the resume step
\* (not in the completed list it loaded, and not the in-progress label it
\* promoted), each once, one at a time and in enumeration order; each launch
\* resolves, or the driver is killed; the invocation ends, and when it ends
\* by itself after the loop the persisted in_progress is null.
C26_GridRun ==
    /\ [](LET pending == (Labels \ atStart) \ {resumable}
          IN  /\ \A i \in 1..Len(launched) : launched[i] \in pending
              /\ \A i, j \in 1..Len(launched) : i < j => launched[i] < launched[j]
              /\ pc \in Launched => launched # <<>> /\ launched[Len(launched)] = label
              /\ pc = "loop" /\ idx > NumCombos =>
                    /\ {launched[i] : i \in 1..Len(launched)} = pending
                    /\ stateFile.in_progress = None
              /\ pc = "done" => stateFile.kind = "ok" /\ stateFile.in_progress = None)
    /\ (pc = "running") ~> (pc \in {"save_done", "save_fail", "killed"})
    /\ (pc = "save_init") ~> (pc \in Stopped)

C26_Witness ==
    /\ pc = "loop" /\ idx > NumCombos
    /\ Len(launched) = 1 /\ resumable # None
    /\ atStart = {}

\* C27: the active-learning driver never starts more campaigns than --budget,
\* and when it finishes it has run exactly --budget campaigns unless every
\* candidate of the grid is evaluated; the budget may be 0 or 1.
C27_ExactlyBudgetCampaigns ==
    LET campaigns == all_results + (IF alPc = "campaign" THEN 1 ELSE 0)
    IN  /\ alPc # "idle" => campaigns <= budget
        /\ alPc = "finished" =>
               \/ all_results = budget
               \/ evaluated = generate_candidate_grid

\* C28: in the active-learning driver a running campaign is never past the
\* deadline derived from --timeout (the --timeout value, with at most the
\* grid driver's buffer), and a campaign that ends, by itself or at the
\* deadline, is recorded.
C28_TimeoutBoundsCampaign ==
    /\ runPc = "running" => elapsed <= effective_timeout(timeout_seconds)
    /\ runPc \in {"returned", "crashed"} => resolution = "recorded"

\* C29: a step of an invocation with --dry-run lists the combinations and
\* returns; it changes neither the state file nor the results directory nor
\* the results, and the invocation has launched neither the build step nor
\* a campaign.
C29_DryRunNoEffect ==
    [][dry_run' =>
          /\ out' = combinations /\ pc' = "done"
          /\ UNCHANGED <<stateFile, results_dir, metrics, saved>>
          /\ ~build_launched' /\ launched' = <<>>]_vars

C29_Witness ==
    /\ dry_run /\ pc = "done"
    /\ stateFile.kind = "ok" /\ stateFile.in_progress # None
    /\ stateFile.completed # {}

\* C30: outside a save that is under way, every label of the completed list
\* of a state that was saved is in the completed list the state file holds
\* (after any step, failure, kill or restart); and such a label is not the
\* label of a launch.
C30_CompletedOnlyGrows ==
    LET persisted == IF stateFile.kind = "ok" THEN stateFile.completed ELSE {}
    IN  /\ ~fileOpen => saved \subseteq persisted
        /\ pc \in {"save_inprog"} \cup Launched => label \notin saved

\* C31: with n >= 2 labeled rows, best and rest each hold at least one row,
\* share no row, and together hold each of the n labeled rows once.
C31_BestRestPartition ==
    done =>
      LET rows(q) == {q[i] : i \in 1..Len(q)}
      IN  /\ out.best # <<>> /\ out.rest # <<>>
          /\ rows(out.best) \cap rows(out.rest) = {}
          /\ rows(out.best) \cup rows(out.rest) = rows(sorted_rows(arg))
          /\ Len(out.best) + Len(out.rest) = arg

C31_Witness == done /\ arg = 3 /\ out.best = <<1, 2>> /\ out.rest = <<3>>

\* C32: on the same disk and with the build and the runners doing the same,
\* the invocation without --resume saves the same states and launches the
\* same labels, in the same order, as the invocation with --resume; it keeps
\* the completed list it finds, and does not launch a label of that list.
C32_ResumeFlagIgnored ==
    phase = 2 =>
        /\ Len(obs) <= Len(obs1) /\ obs = SubSeq(obs1, 1, Len(obs))
        /\ pc \in Finished => obs = obs1
        /\ \A i \in 1..Len(obs) :
              /\ "saved" \in DOMAIN obs[i] =>
                    snap.stateFile.completed \subseteq obs[i].saved.completed
              /\ "launch" \in DOMAIN obs[i] =>
                    obs[i].launch \notin snap.stateFile.completed

C32_Witness ==
    /\ phase = 2 /\ pc = "done" /\ ~resume
    /\ obs = obs1
    /\ snap.stateFile.completed # {}
    /\ snap.stateFile.in_progress # None
    /\ \E i \in 1..Len(obs) : "launch" \in DOMAIN obs[i]

====
